---- MODULE Spec2Model ----
(***************************************************************************)
(* Verification model of kass: the bounded dispatcher                      *)
(* (src/iterator_consumer.rs), the parameter expander (src/params.rs) with *)
(* its calendar ranges (src/date_range.rs), and the rendering of a         *)
(* response (src/core.rs) through the column decoder (src/types.rs).       *)
(***************************************************************************)
EXTENDS Integers, Sequences, FiniteSets, TLC

\* ------------------------------------------------------------------ bounds
\* largest worker count n handed to consume
MaxN == 3
\* longest input sequence handed to consume
MaxLen == 4
\* most values collect() takes from one calendar range
MaxYield == 7

\* ------------------------------------------------------------------ values
\* Option<E>: None / Some(e)
NoneV == [tag |-> "None", val |-> 0]
Some(v) == [tag |-> "Some", val |-> v]
\* Result<(), E>: Ok(()) / Err(e)
Ok == [tag |-> "Ok", err |-> 0]
Err(e) == [tag |-> "Err", err |-> e]
\* the value of `result` while consume has not returned
Pending == [tag |-> "Pending", err |-> 0]

VARIABLES
    \* ---- consume(self, n, f)
    n,              \* the worker count argument
    input,          \* the items of the iterator `self`, in order
    fails,          \* the items for which the action f returns Err
    pc,             \* position of the thread that called consume
    pre_assigned,   \* Vec of the first n items
    queue,          \* what is left in the shared iterator (Mutex)
    error,          \* the shared error cell (RwLock<Option<E>>)
    threads,        \* the spawned workers, in spawn order
    joined,         \* how many JoinHandles have been joined
    result,         \* what consume returned
    \* ---- history of the run
    invoked,        \* item -> how many times f was called with it
    written,        \* the writes to the error cell, in order
    \* ---- parse_args(args)
    args,           \* the parameter tokens, in command-line order
    ppc,            \* position inside parse_args
    parsed,         \* the QueryValues of the tokens parsed so far
    expanded,       \* the Values (Vec<Value>) of the tokens expanded so far
    tuples,         \* the Vec<Values> parse_args returns
    perr,           \* the error parse_args returned, or the panic message
    iter,           \* the DateTimeRange that collect() is draining
    vec,            \* the Vec<Value> collect() has built from it so far
    spawned,        \* the tuples query_with_args spawned an execution for
    \* ---- history of parse_args
    yielded,        \* per parsed token, the timestamps next() returned
    \* ---- prepared_query(session, query, vals, config)
    resp,           \* what exec_with_params answers: the Frame or a failure
    rpc,            \* position inside prepared_query / write_results
    rpos,           \* how many rows write_results has passed to write_row
    stdout,         \* the rows printed with println!, in order
    stderr          \* the errors printed with eprintln!, in order

cvars == <<n, input, fails, pc, pre_assigned, queue, error, threads, joined,
           result, invoked, written>>

pvars == <<args, ppc, parsed, expanded, tuples, perr, iter, vec, spawned,
           yielded>>

rvars == <<resp, rpc, rpos, stdout, stderr>>

vars == <<cvars, pvars, rvars>>

\* ------------------------------------------------------------------ helpers
\* take(k) with an off-by-one: one item too many is pre-assigned
TakeOneMore(s, k) == SubSeq(s, 1, IF k + 1 < Len(s) THEN k + 1 ELSE Len(s))

\* Iterator::take(k) on a sequence
Take(s, k) == SubSeq(s, 1, IF k < Len(s) THEN k ELSE Len(s))

\* the iterator loses one item more than take(k) handed out
DropOneMore(s, k) ==
    SubSeq(s, (IF k + 1 < Len(s) THEN k + 1 ELSE Len(s)) + 1, Len(s))

\* take(k) ran on a copy: the shared iterator still holds the taken items
DropNothing(s, k) == s

\* what an iterator still holds after k items were taken off it
Drop(s, k) == SubSeq(s, (IF k < Len(s) THEN k ELSE Len(s)) + 1, Len(s))

\* the per-item action f: Err for the items chosen to fail, Ok otherwise;
\* the error it produces for item k is k
Action(item) == IF item \in fails THEN Err(item) ELSE Ok

\* the loop condition inverted
NoErrorNegated(cell) == cell.tag = "Some"

\* the loop condition ignoring the cell
NoErrorIgnored(cell) == TRUE

\* no_error: error.read().unwrap().is_none()
NoError(cell) == cell.tag = "None"

\* the write to the cell left out
SetErrorDropped(cell, err) == cell

\* the write keeping an error that is already stored
SetErrorKeepFirst(cell, err) == IF cell.tag = "None" THEN Some(err) ELSE cell

\* set_error: *err_ref = Some(err)
SetError(cell, err) == Some(err)

\* next_in_queue taking the last item of the iterator
NextInQueueBack(q) ==
    IF q = <<>> THEN <<NoneV, q>>
    ELSE <<Some(q[Len(q)]), SubSeq(q, 1, Len(q) - 1)>>

\* next_in_queue: queue.lock().unwrap().next(), as <<Option<item>, queue after>>
NextInQueue(q) ==
    IF q = <<>> THEN <<NoneV, q>> ELSE <<Some(Head(q)), Tail(q)>>

\* res.as_ref().map_or(Ok(()), |x| Err(x.clone()))
MapOr(cell) == IF cell.tag = "None" THEN Ok ELSE Err(cell.val)

\* the closure handed to thread::spawn, at its first statement; `late` counts
\* the items the worker took off the queue while the error cell was filled,
\* `after` the invocations of f it began while the cell was filled
NewWorker(item) ==
    [pc |-> "call", item |-> item, result |-> Pending, late |-> 0,
     after |-> 0]

Workers == 1..Len(threads)

\* ------------------------------------------------------------------ params
\* most parameter tokens on one command line
MaxParams == 2

\* i32::MAX
I32Max == 2147483647

Digits == {"0", "1", "2", "3", "4", "5", "6", "7", "8", "9"}

\* the character of s at position i, and s without its first k characters
Ch(s, i) == IF 1 <= i /\ i <= Len(s) THEN SubSeq(s, i, i) ELSE ""
Rest(s, k) == IF k >= Len(s) THEN "" ELSE SubSeq(s, k + 1, Len(s))
Prefix(s, k) == IF k >= Len(s) THEN s ELSE SubSeq(s, 1, k)

DigitVal(c) ==
    CASE c = "0" -> 0 [] c = "1" -> 1 [] c = "2" -> 2 [] c = "3" -> 3
      [] c = "4" -> 4 [] c = "5" -> 5 [] c = "6" -> 6 [] c = "7" -> 7
      [] c = "8" -> 8 [] c = "9" -> 9

\* how many characters the greedy \d+ takes at the start of s
RECURSIVE LeadingDigits(_)
LeadingDigits(s) ==
    IF s # "" /\ Ch(s, 1) \in Digits
    THEN 1 + LeadingDigits(Rest(s, 1))
    ELSE 0

\* str::parse for an unsigned decimal string with checked arithmetic:
\* the value, or -1 once it exceeds max
RECURSIVE ParseChecked(_, _, _)
ParseChecked(s, acc, max) ==
    IF s = "" THEN acc
    ELSE LET d == DigitVal(Ch(s, 1)) IN
         IF acc > (max - d) \div 10 THEN -1
         ELSE ParseChecked(Rest(s, 1), acc * 10 + d, max)

\* usize::MAX of a 64-bit build, as the decimal string it is compared by
UsizeMaxStr == "18446744073709551615"

\* s without its leading zeros
RECURSIVE StripZeros(_)
StripZeros(s) == IF Ch(s, 1) = "0" THEN StripZeros(Rest(s, 1)) ELSE s

\* a <= b for two digit strings of the same length
RECURSIVE DecLeq(_, _)
DecLeq(a, b) ==
    IF a = "" THEN TRUE
    ELSE IF DigitVal(Ch(a, 1)) # DigitVal(Ch(b, 1))
    THEN DigitVal(Ch(a, 1)) < DigitVal(Ch(b, 1))
    ELSE DecLeq(Rest(a, 1), Rest(b, 1))

\* str::parse::<usize>: -1 when the value exceeds usize::MAX. A value above
\* i32::MAX is kept as i32::MAX: for a Range<i32> that starts at 0 or above,
\* Step::forward_checked fails for every such step alike
parse_usize(s) ==
    LET z == StripZeros(s) IN
    IF Len(z) > Len(UsizeMaxStr)
       \/ (Len(z) = Len(UsizeMaxStr) /\ ~DecLeq(z, UsizeMaxStr))
    THEN -1
    ELSE LET v == ParseChecked(z, 0, I32Max) IN
         IF v < 0 THEN I32Max ELSE v

\* AppResult<QueryValues>
PErr(msg) == [kind |-> "Err", msg |-> msg]
IntRange(from, to, step) ==
    [kind |-> "IntRange", start |-> from, end |-> to, step |-> step]
Strings(xs) == [kind |-> "Strings", xs |-> xs]

\* the type names INT_RANGE admits after the step
IntTypes == {"int", "smallint", "tinyint", "bigint"}

\* INT_RANGE.captures(s):
\* ^(\d+)\.\.(\d+)(?:/(\d+)(?:/(int|smallint|tinyint|bigint))?)?$
\* groups 1-3 (group 3 as an Option), or no match
INT_RANGE(s) ==
    LET a  == LeadingDigits(s)
        r1 == Rest(s, a)
        r2 == Rest(r1, 2)
        b  == LeadingDigits(r2)
        r3 == Rest(r2, b)
        r4 == Rest(r3, 1)
        c  == LeadingDigits(r4)
        r5 == Rest(r4, c)
        head == a >= 1 /\ Prefix(r1, 2) = ".." /\ b >= 1
        g1 == Prefix(s, a)
        g2 == Prefix(r2, b)
        g3 == Prefix(r4, c)
    IN  IF head /\ r3 = ""
        THEN [matched |-> TRUE, g1 |-> g1, g2 |-> g2, g3 |-> NoneV]
        ELSE IF head /\ Ch(r3, 1) = "/" /\ c >= 1
                /\ (r5 = "" \/ (Ch(r5, 1) = "/" /\ Rest(r5, 1) \in IntTypes))
        THEN [matched |-> TRUE, g1 |-> g1, g2 |-> g2, g3 |-> Some(g3)]
        ELSE [matched |-> FALSE, g1 |-> "", g2 |-> "", g3 |-> NoneV]

\* parse_int_range with `from > to` as its range check
parse_int_range_gt(from, to, step) ==
    LET f == ParseChecked(from, 0, I32Max)
        t == ParseChecked(to, 0, I32Max)
    IN  IF f < 0 \/ t < 0 THEN PErr("InvalidInt")
        ELSE IF f > t THEN PErr("InvalidRange")
        ELSE IF step.tag = "Some"
        THEN LET st == parse_usize(step.val) IN
             IF st < 0 THEN PErr("InvalidInt") ELSE IntRange(f, t, st)
        ELSE IntRange(f, t, 1)

\* parse_int_range(from, to, step)
parse_int_range(from, to, step) ==
    LET f == ParseChecked(from, 0, I32Max)
        t == ParseChecked(to, 0, I32Max)
    IN  IF f < 0 \/ t < 0 THEN PErr("InvalidInt")
        ELSE IF f >= t THEN PErr("InvalidRange")
        ELSE IF step.tag = "Some"
        THEN LET st == parse_usize(step.val) IN
             IF st < 0 THEN PErr("InvalidInt") ELSE IntRange(f, t, st)
        ELSE IntRange(f, t, 1)

\* comma_separated: s.split(',')
RECURSIVE comma_separated(_)
comma_separated(s) ==
    LET RECURSIVE Upto(_)
        \* how many characters precede the first comma of t
        Upto(t) == IF t = "" \/ Ch(t, 1) = "," THEN 0 ELSE 1 + Upto(Rest(t, 1))
        k == Upto(s)
    IN  IF k = Len(s) THEN <<s>>
        ELSE <<Prefix(s, k)>> \o comma_separated(Rest(s, k + 1))

\* ------------------------------------------------------------------ calendar
\* chrono's NaiveDate covers the years MIN_YEAR..=MAX_YEAR
MIN_YEAR == -262144
MAX_YEAR == 262143

\* NaiveDate as year, month, day; NaiveDateTime as a date and the seconds
\* since midnight
Date(y, m, d) == [y |-> y, m |-> m, d |-> d]
DateTime(date, secs) == [date |-> date, secs |-> secs]

IsLeap(y) == (y % 4 = 0 /\ y % 100 # 0) \/ y % 400 = 0

DaysInMonth(y, m) ==
    IF m = 2 THEN (IF IsLeap(y) THEN 29 ELSE 28)
    ELSE IF m \in {4, 6, 9, 11} THEN 30 ELSE 31

\* NaiveDate::from_ymd_opt
from_ymd_opt(y, m, d) ==
    IF MIN_YEAR <= y /\ y <= MAX_YEAR /\ m \in 1..12 /\ d >= 1 /\ d <= DaysInMonth(y, m)
    THEN Some(Date(y, m, d))
    ELSE NoneV

\* NaiveDate::pred, for a date after the first representable one
Pred(date) ==
    IF date.d > 1 THEN Date(date.y, date.m, date.d - 1)
    ELSE IF date.m > 1
    THEN Date(date.y, date.m - 1, DaysInMonth(date.y, date.m - 1))
    ELSE Date(date.y - 1, 12, 31)

\* the day count of a date from 1970-01-01, and the date of a day count
DaysFromCivil(date) ==
    LET yy  == IF date.m <= 2 THEN date.y - 1 ELSE date.y
        era == yy \div 400
        yoe == yy - era * 400
        mp  == (date.m + 9) % 12
        doy == ((153 * mp + 2) \div 5) + date.d - 1
        doe == yoe * 365 + (yoe \div 4) - (yoe \div 100) + doy
    IN  era * 146097 + doe - 719468

CivilFromDays(z0) ==
    LET z   == z0 + 719468
        era == z \div 146097
        doe == z - era * 146097
        yoe == (doe - (doe \div 1460) + (doe \div 36524) - (doe \div 146096))
                   \div 365
        doy == doe - (365 * yoe + (yoe \div 4) - (yoe \div 100))
        mp  == (5 * doy + 2) \div 153
        d   == doy - ((153 * mp + 2) \div 5) + 1
        m   == IF mp < 10 THEN mp + 3 ELSE mp - 9
    IN  Date(IF m <= 2 THEN yoe + era * 400 + 1 ELSE yoe + era * 400, m, d)

\* a < b and a >= b on NaiveDateTime (derived PartialOrd: date, then time)
DateTimeLt(a, b) ==
    LET da == DaysFromCivil(a.date)
        db == DaysFromCivil(b.date)
    IN  da < db \/ (da = db /\ a.secs < b.secs)

\* chrono::Duration, as whole days and the seconds left over
Duration(days, secs) == [days |-> days, secs |-> secs]

\* a day count no NaiveDate of the tokens survives the addition of: larger
\* step counts are kept as this one
DayCap == 100000000

\* the last day chrono represents
MaxDay == DaysFromCivil(Date(MAX_YEAR, 12, 31))

\* NaiveDateTime + Duration (checked_add_signed): None when the date leaves
\* chrono's range
checked_add_signed(dt, dur) ==
    LET total == dt.secs + dur.secs
        day   == DaysFromCivil(dt.date) + dur.days + (total \div 86400)
    IN  IF day > MaxDay THEN NoneV
        ELSE Some(DateTime(CivilFromDays(day), total % 86400))

\* a u32 is kept as its decimal digits without leading zeros ("" is 0): it
\* can exceed the integers of the model. u32::MAX in that form:
U32MaxStr == "4294967295"

\* str::parse::<u32>: the digits, or NoneV when the value exceeds u32::MAX
parse_u32(s) ==
    LET z == StripZeros(s) IN
    IF Len(z) > Len(U32MaxStr)
       \/ (Len(z) = Len(U32MaxStr) /\ ~DecLeq(z, U32MaxStr))
    THEN NoneV
    ELSE Some(z)

\* quotient and remainder of the u32 with digits s by m, s read digit by
\* digit after the quotient q and remainder r of the digits before it
RECURSIVE DivMod(_, _, _, _)
DivMod(s, m, q, r) ==
    IF s = "" THEN [q |-> q, r |-> r]
    ELSE LET x == r * 10 + DigitVal(Ch(s, 1)) IN
         DivMod(Rest(s, 1), m, q * 10 + (x \div m), x % m)

\* the u32 with digits s, or DayCap when it is larger
RECURSIVE Capped(_, _)
Capped(s, acc) ==
    IF s = "" THEN acc
    ELSE LET x == acc * 10 + DigitVal(Ch(s, 1)) IN
         Capped(Rest(s, 1), IF x > DayCap THEN DayCap ELSE x)

\* Duration::seconds / minutes / hours / days / weeks of the u32 step_n
StepDuration(step_n, unit) ==
    CASE unit = "S" -> LET x == DivMod(step_n, 86400, 0, 0) IN Duration(x.q, x.r)
      [] unit = "M" -> LET x == DivMod(step_n, 1440, 0, 0) IN Duration(x.q, x.r * 60)
      [] unit = "H" -> LET x == DivMod(step_n, 24, 0, 0) IN Duration(x.q, x.r * 3600)
      [] unit = "d" -> Duration(Capped(step_n, 0), 0)
      [] unit = "w" -> Duration(7 * Capped(step_n, 0), 0)

FixedStep(start, end, step) ==
    [kind |-> "FixedStep", start |-> start, end |-> end, step |-> step]
MonthlyStep(current_date, time_of_day, end, months) ==
    [kind |-> "MonthlyStep", current_date |-> current_date,
     time_of_day |-> time_of_day, end |-> end, months |-> months]

\* AppResult<DateTimeRange>
ROk(range) == [tag |-> "Ok", range |-> range]
RErr(msg) == [tag |-> "Err", msg |-> msg]

\* DateTimeRange::new_date_time_range
new_date_time_range(start, end, step, unit) ==
    LET step_n == parse_u32(step) IN
    IF step_n.tag = "None" THEN RErr("InvalidInt")
    ELSE IF unit = "m"
    THEN ROk(MonthlyStep(Some(start.date), start.secs, end, step_n.val))
    ELSE IF unit \in {"S", "M", "H", "d", "w"}
    THEN ROk(FixedStep(start, end, StepDuration(step_n.val, unit)))
    ELSE RErr("Invalid step unit")

\* the value of two digits
TwoDigits(s, i) == DigitVal(Ch(s, i)) * 10 + DigitVal(Ch(s, i + 1))

\* NaiveDate::parse_from_str(s, "%Y-%m-%d") for s of the shape dddd-dd-dd
ParseDate(s) ==
    from_ymd_opt(TwoDigits(s, 1) * 100 + TwoDigits(s, 3), TwoDigits(s, 6),
                 TwoDigits(s, 9))

\* NaiveTime of "%H:%M:%S" for s of the shape dd:dd:dd, as seconds since
\* midnight (a second of 60, chrono's leap second, is not among the tokens)
ParseTime(s) ==
    LET h == TwoDigits(s, 1)
        m == TwoDigits(s, 4)
        sec == TwoDigits(s, 7)
    IN  IF h <= 23 /\ m <= 59 /\ sec <= 59
        THEN Some(h * 3600 + m * 60 + sec)
        ELSE NoneV

\* NaiveDateTime::parse_from_str(s, "%Y-%m-%dT%H:%M:%S") for s of the shape
\* dddd-dd-ddTdd:dd:dd
ParseDateTime(s) ==
    LET d == ParseDate(Prefix(s, 10))
        t == ParseTime(Rest(s, 11))
    IN  IF d.tag = "Some" /\ t.tag = "Some"
        THEN Some(DateTime(d.val, t.val))
        ELSE NoneV

\* DateTimeRange::parse_date_strs
parse_date_strs(start, end, step, unit) ==
    LET s == ParseDate(start)
        e == ParseDate(end)
    IN  IF s.tag = "None" \/ e.tag = "None" THEN RErr("ParseError")
        ELSE new_date_time_range(DateTime(s.val, 0), DateTime(e.val, 0),
                                 step, unit)

\* DateTimeRange::parse_date_time_strs
parse_date_time_strs(start, end, step, unit) ==
    LET s == ParseDateTime(start)
        e == ParseDateTime(end)
    IN  IF s.tag = "None" \/ e.tag = "None" THEN RErr("ParseError")
        ELSE new_date_time_range(s.val, e.val, step, unit)

\* what one next() call does: the Option it returns and the iterator it
\* leaves, or the panic it ends in
Yield(v, it) == [tag |-> "Some", val |-> v, iter |-> it]
Exhausted(it) == [tag |-> "None", val |-> 0, iter |-> it]
Aborted(it) == [tag |-> "Panic", val |-> 0, iter |-> it]

\* FixedInterval::next: `self.start += self.step` panics when the sum
\* leaves chrono's range
FixedInterval_next(x) ==
    IF ~DateTimeLt(x.start, x.end) THEN Exhausted(x)
    ELSE LET sum == checked_add_signed(x.start, x.step) IN
         IF sum.tag = "None" THEN Aborted(x)
         ELSE Yield(x.start, [x EXCEPT !.start = sum.val])

\* last_day_of_month(year, month): the day, or -1 when NaiveDate::from_ymd
\* panics
last_day_of_month(year, month) ==
    LET a == from_ymd_opt(year, month + 1, 1)
        b == from_ymd_opt(year + 1, 1, 1)
    IN  IF a.tag = "Some" THEN Pred(a.val).d
        ELSE IF b.tag = "Some" THEN Pred(b.val).d
        ELSE -1

last_day_of_month_0(year, month_0) == last_day_of_month(year, month_0 + 1)

\* add_months_naive_date(date, months): Some(date), None, or the panic of
\* last_day_of_month. month0 + months is divided by 12 through the digits
\* of months
Panicked == [tag |-> "Panic", val |-> 0]

\* add_months_naive_date with the last day of the target month as its day
add_months_naive_date_last(date, months) ==
    LET dm == DivMod(months, 12, 0, 0)
        sum == (date.m - 1) + dm.r
        additional_years == dm.q + (sum \div 12)
        next_month_0 == sum % 12
        next_year == date.y + additional_years
        last == last_day_of_month_0(next_year, next_month_0)
    IN  IF additional_years >= I32Max THEN NoneV
        ELSE IF last < 0 THEN Panicked
        ELSE from_ymd_opt(next_year, next_month_0 + 1, last)

add_months_naive_date(date, months) ==
    LET dm == DivMod(months, 12, 0, 0)
        sum == (date.m - 1) + dm.r
        additional_years == dm.q + (sum \div 12)
        next_month_0 == sum % 12
        next_year == date.y + additional_years
        last == last_day_of_month_0(next_year, next_month_0)
        next_day == IF date.d < last THEN date.d ELSE last
    IN  IF additional_years >= I32Max THEN NoneV
        ELSE IF last < 0 THEN Panicked
        ELSE from_ymd_opt(next_year, next_month_0 + 1, next_day)

\* MonthlyInterval::next
MonthlyInterval_next(x) ==
    IF x.current_date.tag = "None" THEN Exhausted(x)
    ELSE LET current == DateTime(x.current_date.val, x.time_of_day) IN
         IF ~DateTimeLt(current, x.end) THEN Exhausted(x)
         ELSE LET nd == add_months_naive_date(x.current_date.val, x.months) IN
              IF nd.tag = "Panic" THEN Aborted(x)
              ELSE Yield(current, [x EXCEPT !.current_date = nd])

\* <DateTimeRange as Iterator>::next
DateTimeRange_next(range) ==
    IF range.kind = "FixedStep" THEN FixedInterval_next(range)
    ELSE MonthlyInterval_next(range)

\* the characters [a-zA-Z]
Alphabet == "abcdefghijklmnopqrstuvwxyzABCDEFGHIJKLMNOPQRSTUVWXYZ"
Letters == {Ch(Alphabet, i) : i \in 1..Len(Alphabet)}

\* s consists of characters of the class cs only
RECURSIVE AllIn(_, _)
AllIn(s, cs) == s = "" \/ (Ch(s, 1) \in cs /\ AllIn(Rest(s, 1), cs))

\* \d{4}-\d{2}-\d{2} matches all of s
IsDateShape(s) ==
    /\ Len(s) = 10
    /\ \A i \in {1, 2, 3, 4, 6, 7, 9, 10} : Ch(s, i) \in Digits
    /\ Ch(s, 5) = "-" /\ Ch(s, 8) = "-"

\* \d{4}-\d{2}-\d{2}T\d{2}:\d{2}:\d{2} matches all of s
IsDateTimeShape(s) ==
    /\ Len(s) = 19
    /\ IsDateShape(Prefix(s, 10))
    /\ Ch(s, 11) = "T"
    /\ \A i \in {12, 13, 15, 16, 18, 19} : Ch(s, i) \in Digits
    /\ Ch(s, 14) = ":" /\ Ch(s, 17) = ":"

\* the captures of START..END(?:/(\d+)([units])(?:/([fmtchars]+))?)?$ where
\* START and END are w characters, a date when w is 10 and a date-time when
\* it is 19: groups 1-5 (3, 4 and 5 as Options), or no match
NoMatch ==
    [matched |-> FALSE, g1 |-> "", g2 |-> "", g3 |-> NoneV, g4 |-> NoneV,
     g5 |-> NoneV]

RangeCaptures(s, w, units, fmtchars) ==
    LET IsShape(x) == IF w = 10 THEN IsDateShape(x) ELSE IsDateTimeShape(x)
        g1 == Prefix(s, w)
        r1 == Rest(s, w)
        r2 == Rest(r1, 2)
        g2 == Prefix(r2, w)
        r3 == Rest(r2, w)
        r4 == Rest(r3, 1)
        c  == LeadingDigits(r4)
        g3 == Prefix(r4, c)
        g4 == Ch(r4, c + 1)
        r5 == Rest(r4, c + 1)
        g5 == Rest(r5, 1)
        head == Len(s) >= 2 * w + 2 /\ IsShape(g1) /\ Prefix(r1, 2) = ".."
                /\ IsShape(g2)
        step == head /\ Ch(r3, 1) = "/" /\ c >= 1 /\ g4 \in units
    IN  IF head /\ r3 = ""
        THEN [matched |-> TRUE, g1 |-> g1, g2 |-> g2, g3 |-> NoneV,
              g4 |-> NoneV, g5 |-> NoneV]
        ELSE IF step /\ r5 = ""
        THEN [matched |-> TRUE, g1 |-> g1, g2 |-> g2, g3 |-> Some(g3),
              g4 |-> Some(g4), g5 |-> NoneV]
        ELSE IF step /\ Ch(r5, 1) = "/" /\ g5 # "" /\ AllIn(g5, fmtchars)
        THEN [matched |-> TRUE, g1 |-> g1, g2 |-> g2, g3 |-> Some(g3),
              g4 |-> Some(g4), g5 |-> Some(g5)]
        ELSE NoMatch

\* DATE_RANGE.captures(s):
\* ^(\d{4}-\d{2}-\d{2})\.\.(\d{4}-\d{2}-\d{2})
\*  (?:/(\d+)([mdw])(?:/([a-zA-Z%\-/]+))?)?$
DATE_RANGE(s) ==
    RangeCaptures(s, 10, {"m", "d", "w"},
                  Letters \cup {"%", "-", "/"})

\* DATE_TIME_RANGE.captures(s):
\* ^(\d{4}-\d{2}-\d{2}T\d{2}:\d{2}:\d{2})\.\.(\d{4}-\d{2}-\d{2}T\d{2}:\d{2}:\d{2})
\*  (?:/(\d+)([mdwHMS])(?:/([a-zA-Z%\-/:]+))?)?$
DATE_TIME_RANGE(s) ==
    RangeCaptures(s, 19, {"m", "d", "w", "H", "M", "S"},
                  Letters \cup {"%", "-", "/", ":"})

DATE_FORMAT == "%Y-%m-%d"
DATE_TIME_FORMAT == "%Y-%m-%dT%H:%M:%S"

\* v in decimal, two and four digits wide
Pad2(v) == Ch("0123456789", (v \div 10) + 1) \o Ch("0123456789", (v % 10) + 1)
Pad4(v) == Pad2(v \div 100) \o Pad2(v % 100)

\* x.format(fmt).to_string() for the strftime items %Y %m %d %H %M %S %%
\* and literal characters
RECURSIVE Format(_, _)
Format(x, fmt) ==
    IF fmt = "" THEN ""
    ELSE IF Ch(fmt, 1) # "%" THEN Ch(fmt, 1) \o Format(x, Rest(fmt, 1))
    ELSE LET c == Ch(fmt, 2)
             item == CASE c = "Y" -> Pad4(x.date.y)
                       [] c = "m" -> Pad2(x.date.m)
                       [] c = "d" -> Pad2(x.date.d)
                       [] c = "H" -> Pad2(x.secs \div 3600)
                       [] c = "M" -> Pad2((x.secs \div 60) % 60)
                       [] c = "S" -> Pad2(x.secs % 60)
                       [] c = "%" -> "%"
         IN  item \o Format(x, Rest(fmt, 2))

\* ------------------------------------------------------------------ params
DateTimeRange(range, fmt) ==
    [kind |-> "DateTimeRange", range |-> range, fmt |-> fmt]

\* Option::unwrap on a capture group the token does not have
PPanic == [kind |-> "Panic", msg |-> "unwrap on None"]

\* the DATE_RANGE / DATE_TIME_RANGE branch of parse_query_values: groups 3
\* and 4 are unwrapped before parse_date_strs (with_time FALSE) or
\* parse_date_time_strs (with_time TRUE) is called
parse_date_branch(m, with_time, default_fmt) ==
    IF m.g3.tag = "None" \/ m.g4.tag = "None" THEN PPanic
    ELSE LET r == IF with_time
                  THEN parse_date_time_strs(m.g1, m.g2, m.g3.val, m.g4.val)
                  ELSE parse_date_strs(m.g1, m.g2, m.g3.val, m.g4.val) IN
         IF r.tag = "Err" THEN PErr(r.msg)
         ELSE DateTimeRange(r.range,
                            IF m.g5.tag = "Some" THEN m.g5.val ELSE default_fmt)

\* parse_query_values with an error in place of the literal list
parse_query_values_strict(s) ==
    LET m == INT_RANGE(s)
        d == DATE_RANGE(s)
        t == DATE_TIME_RANGE(s)
    IN  IF m.matched THEN parse_int_range(m.g1, m.g2, m.g3)
        ELSE IF d.matched
        THEN parse_date_branch(d, FALSE, DATE_FORMAT)
        ELSE IF t.matched
        THEN parse_date_branch(t, TRUE, DATE_TIME_FORMAT)
        ELSE PErr("no grammar matches")

\* parse_query_values(s)
parse_query_values(s) ==
    LET m == INT_RANGE(s)
        d == DATE_RANGE(s)
        t == DATE_TIME_RANGE(s)
    IN  IF m.matched THEN parse_int_range(m.g1, m.g2, m.g3)
        ELSE IF d.matched
        THEN parse_date_branch(d, FALSE, DATE_FORMAT)
        ELSE IF t.matched
        THEN parse_date_branch(t, TRUE, DATE_TIME_FORMAT)
        ELSE Strings(comma_separated(s))

\* (from..to).step_by(step).collect(): the first item is `from`, each later
\* one is Step::forward_checked(previous, step) while that is below `to`
RECURSIVE StepBy(_, _, _)
StepBy(from, to, step) ==
    IF from >= to THEN <<>>
    ELSE IF step > I32Max - from THEN <<from>>
    ELSE <<from>> \o StepBy(from + step, to, step)

\* what to_cdrs_values does with a QueryValues: the Vec<Value>, or the panic
\* of Iterator::step_by (assert!(step != 0))
Panic == [tag |-> "Panic", vals |-> <<>>]
Vals(xs) == [tag |-> "Vals", vals |-> xs]

\* (the DateTimeRange arm is the action CollectNext)
to_cdrs_values(qv) ==
    IF qv.kind = "IntRange"
    THEN IF qv.step = 0 THEN Panic
         ELSE Vals(StepBy(qv.start, qv.end, qv.step))
    ELSE Vals(qv.xs)

\* the product with the first parameter varying fastest
RECURSIVE ProductLeftmostFastest(_)
ProductLeftmostFastest(seqs) ==
    IF seqs = <<>> THEN << <<>> >>
    ELSE LET k == Len(seqs)
             init == ProductLeftmostFastest(SubSeq(seqs, 1, k - 1))
             RECURSIVE Rows(_)
             Rows(xs) ==
                 IF xs = <<>> THEN <<>>
                 ELSE [j \in 1..Len(init) |-> init[j] \o <<Head(xs)>>]
                      \o Rows(Tail(xs))
         IN  Rows(seqs[k])

\* Itertools::multi_cartesian_product().collect() over a list of sequences
RECURSIVE multi_cartesian_product(_)
multi_cartesian_product(seqs) ==
    IF seqs = <<>> THEN << <<>> >>
    ELSE LET rest == multi_cartesian_product(Tail(seqs))
             RECURSIVE Rows(_)
             \* every tuple that starts with an item of xs, in order
             Rows(xs) ==
                 IF xs = <<>> THEN <<>>
                 ELSE [j \in 1..Len(rest) |-> <<Head(xs)>> \o rest[j]]
                      \o Rows(Tail(xs))
         IN  Rows(Head(seqs))

\* the parameter tokens the command lines are drawn from
Tokens ==
    {"1..3", "a,b", "0..7/3", "1..5/0", "5..5", "5..3", "x", "a,,b",
     "2..4/2/int", "1..4/int", "3..5", "0..1/9",
     "2147483640..2147483647/5", "2147483646..2147483648",
     "2147483645..2147483647", "0..2147483647/2147483647",
     "1..3/4294967296", "1..3/18446744073709551616", "5..3/0",
     "2019-09-01..2019-12-01", "2019-09-01..2019-09-05/2d",
     "2019-09-02T10:32:20..2020-02-03T09:00:10/1m",
     "2019-09-01..2019-09-05/0d", "2019-09-02..2020-01-01/4000000m",
     "2019-09-01..2019-09-02/100000000d", "2019-09-05..2019-09-01/1d",
     "2019-02-30..2019-03-05/1d", "2019-09-01..2019-09-02/4294967296w"}

\* the tokens a single parameter is drawn from as well: START sep END suffix
\* for every choice of the four parts
TokenParts ==
    {"1", "5", "2147483648", "2019-09-01", "2019-09-03", "2019-13-01",
     "2019-09-01T10:00:00", "2019-09-01T10:01:00", "2019-09-01T24:00:00",
     "a", ""}
TokenSeps == {"..", ".", "-"}
TokenSuffixes ==
    {"", "/0", "/2", "/2/int", "/2/x", "/int", "/1d", "/0d", "/1m", "/0m",
     "/1w", "/30S", "/1H", "/1M", "/1d/%Y%m%d", "/1d/%H:%M", "/1d/", "/1x",
     "/", "/d", "/100000000d", "/4000000m", "/4294967296d", ",b", "/1d/%Y.",
     "/1H,b"}
GenTokens ==
    {a \o sep \o b \o suffix :
        a \in TokenParts, sep \in TokenSeps, b \in TokenParts,
        suffix \in TokenSuffixes}

\* monthly ranges that start at the end of a month, in and around leap
\* years, and one whose first advance reaches December of chrono's last year
MonthStarts ==
    {Date(y, m, d) : y \in {1899, 1999, 2019, 2020},
                     m \in {1, 3, 5, 8, 10, 12}, d \in 28..31}
MonthCounts == {"1", "2", "3", "11", "12", "13"}
DateStr(date) == Pad4(date.y) \o "-" \o Pad2(date.m) \o "-" \o Pad2(date.d)
MonthTokens ==
    {DateStr(s) \o ".." \o DateStr(e) \o "/" \o c \o "m" :
        s \in MonthStarts,
        e \in {Date(y, 6, 15) : y \in {1899, 1999, 2019, 2020}}
               \cup {Date(y, 3, 15) : y \in {1900, 2000, 2020, 2021}},
        c \in MonthCounts}
        \cup {"2019-12-01..2020-01-01/3121488m"}

\* ------------------------------------------------------------------ decoder
\* ColTypeOption: a type id and, for collections, the element types
ColTypeOption(id, value) == [id |-> id, value |-> value]
CList(elem) == [tag |-> "CList", elem |-> elem]
CMap(key_meta, value_meta) ==
    [tag |-> "CMap", key |-> key_meta, val |-> value_meta]

\* CBytes: NoneV without a payload, else Some of the bytes. The bytes are
\* kept by what the cdrs decode_* functions make of them: "ok" with the
\* value v they hold, "range" for a date, time or timestamp chrono does not
\* represent, "bad" for bytes the decode_* function rejects; the bytes of a
\* list with its elements, those of a map with its entries
Plain(b, v) == Some([b |-> b, v |-> v])
PlainList(elems) == Some([b |-> "list", elems |-> elems])
PlainMap(entries) == Some([b |-> "map", entries |-> entries])

\* CDRSResult<T>, and a panic inside the decoder
DOk(v) == [tag |-> "Ok", val |-> v, msg |-> ""]
DErr(msg) == [tag |-> "Err", val |-> 0, msg |-> msg]
DPanic == [tag |-> "Panic", val |-> 0, msg |-> ""]

\* ColValue
ColValue(variant, v) == [variant |-> variant, value |-> v]

\* the ColValue variant ColValue::decode builds for a scalar type id
VariantOf(id) ==
    CASE id = "Null" -> "Null"
      [] id \in {"Varchar", "Ascii", "Custom"} -> "String"
      [] id \in {"Tinyint", "Smallint", "Int", "Bigint", "Varint", "Counter"}
            -> "Int"
      [] id \in {"Float", "Double"} -> "Double"
      [] id = "Decimal" -> "Decimal"
      [] id = "Boolean" -> "Boolean"
      [] id = "Date" -> "Date"
      [] id = "Time" -> "Time"
      [] id = "Timestamp" -> "Timestamp"
      [] id = "Inet" -> "Inet"
      [] id \in {"Uuid", "Timeuuid"} -> "Uuid"
      [] id = "Blob" -> "Blob"

\* the text of a key: x.to_string(); different values give different texts
KeyString(v) == "key" \o Ch("0123456789", v.value + 1)

\* into_map_key with the Decimal variant admitted as well
into_map_key_decimal(v) ==
    IF v.variant \in {"String", "Int", "Boolean", "Double", "Date", "Time",
                      "Timestamp", "Inet", "Uuid", "Blob", "Decimal"}
    THEN DOk(KeyString(v))
    ELSE DErr("Unexpected map key type")

\* ColValue::into_map_key
into_map_key(v) ==
    IF v.variant \in {"String", "Int", "Boolean", "Double", "Date", "Time",
                      "Timestamp", "Inet", "Uuid", "Blob"}
    THEN DOk(KeyString(v))
    ELSE DErr("Unexpected map key type")

\* HashMap::insert
Insert(m, k, v) == [x \in (DOMAIN m) \cup {k} |-> IF x = k THEN v ELSE m[x]]

RECURSIVE decode(_, _), SeqOf(_, _), MapOf(_, _, _, _)

\* lines 190-192: data.iter().map(decode).collect(), which ends at the
\* first Err
SeqOf(elem_type, data) ==
    IF data = <<>> THEN DOk(<<>>)
    ELSE LET h == decode(elem_type, Head(data)) IN
         IF h.tag # "Ok" THEN h
         ELSE LET t == SeqOf(elem_type, Tail(data)) IN
              IF t.tag # "Ok" THEN t ELSE DOk(<<h.val>> \o t.val)

\* to_seq
to_seq(meta, data) ==
    IF meta.tag \in {"CList", "CSet"} THEN SeqOf(meta.elem, data)
    ELSE DErr("Error converting list/set")

\* lines 203-209: per entry the key is decoded and turned into a string,
\* then the value is decoded; collect() ends at the first Err. m holds the
\* entries collected so far
MapOf(key_meta, value_meta, data, m) ==
    IF data = <<>> THEN DOk(m)
    ELSE LET k == decode(key_meta, Head(data)[1]) IN
         IF k.tag # "Ok" THEN k
         ELSE LET key == into_map_key(k.val) IN
              IF key.tag # "Ok" THEN key
              ELSE LET value == decode(value_meta, Head(data)[2]) IN
                   IF value.tag # "Ok" THEN value
                   ELSE MapOf(key_meta, value_meta, Tail(data),
                              Insert(m, key.val, value.val))

\* to_map
to_map(meta, data) ==
    IF meta.tag = "CMap" THEN MapOf(meta.key, meta.val, data, <<>>)
    ELSE DErr("Error converting map")

\* ColValue::decode, for every type id but Tuple and Udt
decode(col_type, data) ==
    IF data.tag = "None" THEN DOk(ColValue("Null", 0))
    ELSE LET bytes == data.val
             id == col_type.id
         IN  IF id = "Null" THEN DOk(ColValue("Null", 0))
             ELSE IF id = "Blob" THEN DOk(ColValue("Blob", bytes.v))
             ELSE IF id \in {"List", "Set"}
             THEN IF bytes.b # "list" THEN DErr("decode")
                  ELSE LET s == to_seq(col_type.value, bytes.elems) IN
                       IF s.tag # "Ok" THEN s ELSE DOk(ColValue("Seq", s.val))
             ELSE IF id = "Map"
             THEN IF bytes.b # "map" THEN DErr("decode")
                  ELSE LET m == to_map(col_type.value, bytes.entries) IN
                       IF m.tag # "Ok" THEN m ELSE DOk(ColValue("Map", m.val))
             ELSE IF bytes.b = "range" /\ id \in {"Date", "Time", "Timestamp"}
             THEN DPanic
             ELSE IF bytes.b \in {"ok", "range"}
             THEN DOk(ColValue(VariantOf(id), bytes.v))
             ELSE DErr("decode")

\* ColSpec: a column name and its type
ColSpec(name, col_type) == [name |-> name, col_type |-> col_type]

\* row_to_json: the object of the columns decoded in order, or the first Err
RECURSIVE row_to_json(_, _, _)
row_to_json(col_specs, row, obj) ==
    IF col_specs = <<>> THEN DOk(obj)
    ELSE LET value == decode(Head(col_specs).col_type, Head(row)) IN
         IF value.tag # "Ok" THEN value
         ELSE row_to_json(Tail(col_specs), Tail(row),
                          Insert(obj, Head(col_specs).name, value.val))

\* ---- the responses of the model
\* most entries of a map column, most rows of a response
MaxEntries == 2
MaxRows == 3

ScalarKeyIds ==
    {"Varchar", "Int", "Boolean", "Double", "Date", "Time", "Timestamp",
     "Inet", "Uuid", "Blob", "Decimal", "Null"}

IntType == ColTypeOption("Int", NoneV)

\* the key types of the map columns and the payloads a key of each can have
KeyTypes ==
    {ColTypeOption(id, NoneV) : id \in ScalarKeyIds}
        \cup {ColTypeOption("List", CList(IntType)),
              ColTypeOption("Map", CMap(IntType, IntType))}

KeyData(key_type) ==
    IF key_type.id = "List"
    THEN {NoneV, PlainList(<<>>), Plain("bad", 0)}
    ELSE IF key_type.id = "Map"
    THEN {NoneV, PlainMap(<<>>), Plain("bad", 0)}
    ELSE {NoneV, Plain("ok", 1), Plain("ok", 2), Plain("bad", 0),
          Plain("range", 1)}

ValueData == {NoneV, Plain("ok", 1), Plain("bad", 0)}

\* a response of one row with one map column
MapFrames ==
    UNION {
        {[kind |-> "rows",
          col_specs |-> <<ColSpec("m", ColTypeOption("Map", CMap(kt, IntType)))>>,
          rows_content |-> << <<PlainMap(es)>> >>] :
            es \in UNION {[1..k -> KeyData(kt) \X ValueData] :
                             k \in 0..MaxEntries}} :
        kt \in KeyTypes}

\* the columns of the responses of several rows, and the rows they hold
SampleSpecs ==
    <<ColSpec("id", IntType),
      ColSpec("m", ColTypeOption("Map",
                       CMap(ColTypeOption("Varchar", NoneV), IntType))),
      ColSpec("t", ColTypeOption("Timestamp", NoneV))>>

SampleRows ==
    {<<Plain("ok", 1), PlainMap(<< <<Plain("ok", 1), Plain("ok", 1)>> >>),
       Plain("ok", 1)>>,
     <<NoneV, NoneV, NoneV>>,
     <<Plain("bad", 0), NoneV, Plain("range", 1)>>,
     <<Plain("ok", 2), PlainMap(<< <<NoneV, Plain("ok", 1)>> >>),
       Plain("ok", 2)>>,
     <<Plain("ok", 1), Plain("bad", 0), Plain("ok", 1)>>,
     <<Plain("ok", 2), NoneV, Plain("range", 1)>>}

RowFrames ==
    {[kind |-> "rows", col_specs |-> SampleSpecs, rows_content |-> rs] :
        rs \in UNION {[1..k -> SampleRows] : k \in 0..MaxRows}}

\* exec_with_params failed, get_body failed, the body holds no rows
OtherFrames ==
    {[kind |-> k, col_specs |-> <<>>, rows_content |-> <<>>] :
        k \in {"exec_err", "body_err", "void"}}

\* ------------------------------------------------------------------ Init
\* consume is called with n workers on the items 1..len; any set of items
\* may make the action fail
InitConsume ==
    /\ n \in 0..MaxN
    /\ \E len \in 0..MaxLen :
          /\ input = [i \in 1..len |-> i]
          /\ fails \in SUBSET (1..len)
          /\ invoked = [i \in 1..len |-> 0]
    /\ pc = "start"
    /\ pre_assigned = <<>>
    /\ queue = input
    /\ error = NoneV
    /\ threads = <<>>
    /\ joined = 0
    /\ result = Pending
    /\ written = <<>>

\* parse_args is not running
IdleParams ==
    /\ args = <<>>
    /\ ppc = "idle"
    /\ parsed = <<>>
    /\ expanded = <<>>
    /\ tuples = <<>>
    /\ perr = ""
    /\ iter = NoneV
    /\ vec = <<>>
    /\ spawned = <<>>
    /\ yielded = <<>>

\* consume is not running
IdleConsume ==
    /\ n = 0
    /\ input = <<>>
    /\ fails = {}
    /\ invoked = <<>>
    /\ pc = "idle"
    /\ pre_assigned = <<>>
    /\ queue = <<>>
    /\ error = NoneV
    /\ threads = <<>>
    /\ joined = 0
    /\ result = Pending
    /\ written = <<>>

\* parse_args is called with 1..MaxParams tokens (clap hands over the values
\* of --param only when there is at least one)
InitParams ==
    /\ \E k \in 1..MaxParams :
          args \in [1..k -> IF k = 1 THEN Tokens \cup GenTokens \cup MonthTokens
                                 ELSE Tokens]
    /\ ppc = "parse"
    /\ parsed = <<>>
    /\ expanded = <<>>
    /\ tuples = <<>>
    /\ perr = ""
    /\ iter = NoneV
    /\ vec = <<>>
    /\ spawned = <<>>
    /\ yielded = <<>>

\* prepared_query is not running
IdleRender ==
    /\ resp = [kind |-> "none", col_specs |-> <<>>, rows_content |-> <<>>]
    /\ rpc = "idle"
    /\ rpos = 0
    /\ stdout = <<>>
    /\ stderr = <<>>

\* prepared_query is called; the session will answer with one of the
\* responses of the model
InitRender ==
    /\ resp \in MapFrames \cup RowFrames \cup OtherFrames
    /\ rpc = "exec"
    /\ rpos = 0
    /\ stdout = <<>>
    /\ stderr = <<>>

Init == InitConsume /\ IdleParams /\ IdleRender

InitP == IdleConsume /\ InitParams /\ IdleRender

InitR == IdleConsume /\ IdleParams /\ InitRender

\* ------------------------------------------------------------------ consume
\* assert!(n > 0) fails: the call panics before touching the iterator
AssertFails ==
    /\ pc = "start"
    /\ ~(n > 0)
    /\ pc' = "panicked"
    /\ UNCHANGED <<n, input, fails, pre_assigned, queue, error, threads,
                   joined, result, invoked, written,
                   pvars, rvars>>

\* lines 14-18: the assertion holds; take(n) moves the first n items into
\* pre_assigned, the rest of the iterator goes behind the Mutex, the error
\* cell starts empty
Start ==
    /\ pc = "start"
    /\ n > 0
    /\ pre_assigned' = Take(queue, n)
    /\ queue' = Drop(queue, n)
    /\ error' = NoneV
    /\ pc' = "spawn"
    /\ UNCHANGED <<n, input, fails, threads, joined, result, invoked, written,
                   pvars, rvars>>

\* lines 20-22: one thread::spawn per pre-assigned item, in order
Spawn ==
    /\ pc = "spawn"
    /\ Len(threads) < Len(pre_assigned)
    /\ threads' = Append(threads, NewWorker(pre_assigned[Len(threads) + 1]))
    /\ UNCHANGED <<n, input, fails, pc, pre_assigned, queue, error, joined,
                   result, invoked, written,
                   pvars, rvars>>

\* line 23: collect_vec ends once every pre-assigned item has its thread
Collect ==
    /\ pc = "spawn"
    /\ Len(threads) = Len(pre_assigned)
    /\ pc' = "join"
    /\ UNCHANGED <<n, input, fails, pre_assigned, queue, error, threads,
                   joined, result, invoked, written,
                   pvars, rvars>>

\* join that does not wait for the thread
JoinNoWait ==
    /\ pc = "join"
    /\ joined < Len(threads)
    /\ joined' = joined + 1
    /\ UNCHANGED <<n, input, fails, pc, pre_assigned, queue, error, threads,
                   result, invoked, written,
                   pvars, rvars>>

\* lines 25-27: t.join() returns once thread t has finished
Join ==
    /\ pc = "join"
    /\ joined < Len(threads)
    /\ threads[joined + 1].pc = "exit"
    /\ joined' = joined + 1
    /\ UNCHANGED <<n, input, fails, pc, pre_assigned, queue, error, threads,
                   result, invoked, written,
                   pvars, rvars>>

\* lines 29-30: read the error cell and return
Return ==
    /\ pc = "join"
    /\ joined = Len(threads)
    /\ result' = MapOr(error)
    /\ pc' = "done"
    /\ UNCHANGED <<n, input, fails, pre_assigned, queue, error, threads,
                   joined, invoked, written,
                   pvars, rvars>>

\* ------------------------------------------------------------------ worker
\* lines 49, 54: the worker calls f(item)
Call(w) ==
    /\ threads[w].pc = "call"
    /\ threads' = [threads EXCEPT
                      ![w].pc = "in_f",
                      ![w].after = @ + (IF error.tag = "Some" THEN 1 ELSE 0)]
    /\ invoked' = [invoked EXCEPT ![threads[w].item] = @ + 1]
    /\ UNCHANGED <<n, input, fails, pc, pre_assigned, queue, error, joined,
                   result, written,
                   pvars, rvars>>

\* lines 49, 54: f(item) returns and its value is stored in `result`
Finish(w) ==
    /\ threads[w].pc = "in_f"
    /\ threads' = [threads EXCEPT ![w].pc = "loop",
                                  ![w].result = Action(threads[w].item)]
    /\ UNCHANGED <<n, input, fails, pc, pre_assigned, queue, error, joined,
                   result, invoked, written,
                   pvars, rvars>>

\* the loop condition looked at only after a failed invocation
CheckOnlyOnErr(w) ==
    /\ threads[w].pc = "loop"
    /\ threads' = [threads EXCEPT
                      ![w].pc = IF threads[w].result.tag = "Ok" \/ NoError(error)
                                THEN "body" ELSE "exit"]
    /\ UNCHANGED <<n, input, fails, pc, pre_assigned, queue, error, joined,
                   result, invoked, written,
                   pvars, rvars>>

\* line 50: while no_error(&error)
Check(w) ==
    /\ threads[w].pc = "loop"
    /\ threads' = [threads EXCEPT
                      ![w].pc = IF NoError(error) THEN "body" ELSE "exit"]
    /\ UNCHANGED <<n, input, fails, pc, pre_assigned, queue, error, joined,
                   result, invoked, written,
                   pvars, rvars>>

\* lines 52-57: result is Ok: take the next item of the queue, or leave the
\* loop when there is none
Claim(w) ==
    /\ threads[w].pc = "body"
    /\ threads[w].result.tag = "Ok"
    /\ LET nx == NextInQueue(queue) IN
          /\ queue' = nx[2]
          /\ threads' =
                IF nx[1].tag = "Some"
                THEN [threads EXCEPT
                         ![w].pc = "call",
                         ![w].item = nx[1].val,
                         ![w].late = @ + (IF error.tag = "None" THEN 0 ELSE 1)]
                ELSE [threads EXCEPT ![w].pc = "exit"]
    /\ UNCHANGED <<n, input, fails, pc, pre_assigned, error, joined, result,
                   invoked, written,
                   pvars, rvars>>

\* lines 59-62: result is Err(err): store it in the error cell and leave
Record(w) ==
    /\ threads[w].pc = "body"
    /\ threads[w].result.tag = "Err"
    /\ error' = SetError(error, threads[w].result.err)
    /\ written' = Append(written, [by |-> w, err |-> threads[w].result.err])
    /\ threads' = [threads EXCEPT ![w].pc = "exit"]
    /\ UNCHANGED <<n, input, fails, pc, pre_assigned, queue, joined, result,
                   invoked,
                   pvars, rvars>>

Next ==
    \/ AssertFails
    \/ Start
    \/ Spawn
    \/ Collect
    \/ Join
    \/ Return
    \/ \E w \in Workers : Call(w)
    \/ \E w \in Workers : Finish(w)
    \/ \E w \in Workers : Check(w)
    \/ \E w \in Workers : Claim(w)
    \/ \E w \in Workers : Record(w)

Spec == Init /\ [][Next]_vars

\* every thread the OS has started keeps being scheduled
FairSpec == Spec /\ WF_vars(Next)

\* ------------------------------------------------------------------ parse_args
\* parse_args going on after a token that failed to parse, the token taken
\* to have no values
ParseArgLenient ==
    /\ ppc = "parse"
    /\ Len(parsed) < Len(args)
    /\ LET qv == parse_query_values(args[Len(parsed) + 1]) IN
          IF qv.kind = "Panic"
          THEN /\ ppc' = "panicked"
               /\ perr' = qv.msg
               /\ UNCHANGED <<parsed, iter, vec, yielded>>
          ELSE /\ ppc' = "expand"
               /\ parsed' = Append(parsed, IF qv.kind = "Err"
                                            THEN Strings(<<>>) ELSE qv)
               /\ iter' = IF qv.kind = "DateTimeRange" THEN Some(qv.range)
                          ELSE NoneV
               /\ vec' = <<>>
               /\ yielded' = Append(yielded, <<>>)
               /\ UNCHANGED perr
    /\ UNCHANGED <<args, expanded, tuples, spawned, cvars, rvars>>

\* line 99: the map closure parses the next token; an Err ends collect() and
\* `results?` returns it (cass.rs line 68 hands it on); a panic ends the run
ParseArg ==
    /\ ppc = "parse"
    /\ Len(parsed) < Len(args)
    /\ LET qv == parse_query_values(args[Len(parsed) + 1]) IN
          IF qv.kind = "Err"
          THEN /\ ppc' = "err"
               /\ perr' = qv.msg
               /\ UNCHANGED parsed
               /\ UNCHANGED <<iter, vec, yielded>>
          ELSE IF qv.kind = "Panic"
          THEN /\ ppc' = "panicked"
               /\ perr' = qv.msg
               /\ UNCHANGED parsed
               /\ UNCHANGED <<iter, vec, yielded>>
          ELSE /\ ppc' = "expand"
               /\ parsed' = Append(parsed, qv)
               /\ iter' = IF qv.kind = "DateTimeRange" THEN Some(qv.range)
                          ELSE NoneV
               /\ vec' = <<>>
               /\ yielded' = Append(yielded, <<>>)
               /\ UNCHANGED perr
    /\ UNCHANGED <<args, expanded, tuples, spawned, cvars, rvars>>

\* line 99: .map(to_cdrs_values) on an IntRange or Strings just parsed
ExpandArg ==
    /\ ppc = "expand"
    /\ parsed[Len(parsed)].kind # "DateTimeRange"
    /\ LET vs == to_cdrs_values(parsed[Len(parsed)]) IN
          IF vs.tag = "Panic"
          THEN /\ ppc' = "panicked"
               /\ perr' = "step_by(0)"
               /\ UNCHANGED expanded
          ELSE /\ ppc' = "parse"
               /\ expanded' = Append(expanded, vs.vals)
               /\ UNCHANGED perr
    /\ UNCHANGED <<iter, vec, yielded>>
    /\ UNCHANGED <<args, parsed, tuples, spawned, cvars, rvars>>

\* lines 90-93: to_cdrs_values on a DateTimeRange just parsed; collect()
\* calls next() once more and pushes the formatted timestamp, or is done
\* when next() returns None
CollectNext ==
    /\ ppc = "expand"
    /\ parsed[Len(parsed)].kind = "DateTimeRange"
    /\ LET r == DateTimeRange_next(iter.val) IN
          IF r.tag = "Some"
          THEN /\ Len(vec) < MaxYield
               /\ vec' = Append(vec, Format(r.val, parsed[Len(parsed)].fmt))
               /\ iter' = Some(r.iter)
               /\ yielded' = [yielded EXCEPT ![Len(yielded)] = Append(@, r.val)]
               /\ UNCHANGED <<ppc, perr, expanded>>
          ELSE IF r.tag = "None"
          THEN /\ expanded' = Append(expanded, vec)
               /\ ppc' = "parse"
               /\ iter' = NoneV
               /\ vec' = <<>>
               /\ UNCHANGED <<perr, yielded>>
          ELSE /\ ppc' = "panicked"
               /\ perr' = "date out of range"
               /\ UNCHANGED <<expanded, iter, vec, yielded>>
    /\ UNCHANGED <<args, parsed, tuples, spawned, cvars, rvars>>

\* line 102: every token is expanded; the product is collected and returned
Product ==
    /\ ppc = "parse"
    /\ Len(parsed) = Len(args)
    /\ tuples' = multi_cartesian_product(expanded)
    /\ ppc' = "done"
    /\ UNCHANGED <<iter, vec, yielded>>
    /\ UNCHANGED <<args, parsed, expanded, perr, spawned, cvars, rvars>>

\* cass.rs lines 77-81: traverse maps the closure over the tuples, which
\* spawns query_prepared for the next tuple on the pool
SpawnQuery ==
    /\ ppc = "done"
    /\ Len(spawned) < Len(tuples)
    /\ spawned' = Append(spawned, tuples[Len(spawned) + 1])
    /\ UNCHANGED <<iter, vec, yielded>>
    /\ UNCHANGED <<args, ppc, parsed, expanded, tuples, perr, cvars, rvars>>

NextP ==
    \/ ParseArg
    \/ ExpandArg
    \/ CollectNext
    \/ Product
    \/ SpawnQuery

ParamSpec == InitP /\ [][NextP]_vars

\* ------------------------------------------------------------------ prepared_query
\* core.rs line 95: session.exec_with_params(query, params)?
ExecWithParams ==
    /\ rpc = "exec"
    /\ rpc' = IF resp.kind = "exec_err" THEN "err" ELSE "body"
    /\ UNCHANGED <<resp, rpos, stdout, stderr, cvars, pvars>>

\* core.rs line 132: resp.get_body()?
GetBody ==
    /\ rpc = "body"
    /\ rpc' = IF resp.kind = "body_err" THEN "err" ELSE "rows"
    /\ UNCHANGED <<resp, rpos, stdout, stderr, cvars, pvars>>

\* write_row that hands the error of a row on to the caller
WriteRowFailFast ==
    /\ rpc = "rows"
    /\ resp.kind = "rows"
    /\ rpos < Len(resp.rows_content)
    /\ LET r == row_to_json(resp.col_specs, resp.rows_content[rpos + 1], <<>>)
       IN  IF r.tag = "Ok"
           THEN /\ stdout' = Append(stdout, [row |-> rpos + 1, json |-> r.val])
                /\ rpos' = rpos + 1
                /\ UNCHANGED <<stderr, rpc>>
           ELSE IF r.tag = "Err"
           THEN /\ rpc' = "err"
                /\ UNCHANGED <<stdout, stderr, rpos>>
           ELSE /\ rpc' = "panicked"
                /\ UNCHANGED <<stdout, stderr, rpos>>
    /\ UNCHANGED <<resp, cvars, pvars>>

\* core.rs lines 136-138 and 159-173: the loop passes the next row to
\* write_row, which prints the JSON of the row or the error of its decoding
WriteRow ==
    /\ rpc = "rows"
    /\ resp.kind = "rows"
    /\ rpos < Len(resp.rows_content)
    /\ LET r == row_to_json(resp.col_specs, resp.rows_content[rpos + 1], <<>>)
       IN  IF r.tag = "Ok"
           THEN /\ stdout' = Append(stdout, [row |-> rpos + 1, json |-> r.val])
                /\ rpos' = rpos + 1
                /\ UNCHANGED <<stderr, rpc>>
           ELSE IF r.tag = "Err"
           THEN /\ stderr' = Append(stderr, [row |-> rpos + 1, err |-> r.msg])
                /\ rpos' = rpos + 1
                /\ UNCHANGED <<stdout, rpc>>
           ELSE /\ rpc' = "panicked"
                /\ UNCHANGED <<stdout, stderr, rpos>>
    /\ UNCHANGED <<resp, cvars, pvars>>

\* core.rs line 140: Ok(()) after the last row, or when the body holds no
\* rows
ReturnOk ==
    /\ rpc = "rows"
    /\ (resp.kind = "rows" => rpos = Len(resp.rows_content))
    /\ rpc' = "ok"
    /\ UNCHANGED <<resp, rpos, stdout, stderr, cvars, pvars>>

NextR ==
    \/ ExecWithParams
    \/ GetBody
    \/ WriteRow
    \/ ReturnOk

RenderSpec == InitR /\ [][NextR]_vars

\* ------------------------------------------------------------------ claims
\* the items the action was called with
Invoked == {i \in DOMAIN invoked : invoked[i] > 0}

Min(a, b) == IF a < b THEN a ELSE b

\* C1: consume returns Err exactly when some invocation of the action
\* returned Err, and a worker that ends with a failed invocation never leaves
\* the error cell empty, also when it found another worker's failure there
\* and recorded nothing itself.
C1_ErrorIffActionFailed ==
    /\ pc = "done" =>
          /\ result.tag \in {"Ok", "Err"}
          /\ result.tag = "Err" <=> Invoked \cap fails # {}
    /\ \A w \in Workers :
          (threads[w].pc = "exit" /\ threads[w].result.tag = "Err")
             => error.tag = "Some"

\* consume has returned Err although one of two failed workers found the
\* other's failure in the cell and recorded nothing
C1_Witness ==
    /\ pc = "done"
    /\ result.tag = "Err"
    /\ Len(written) = 1
    /\ \E v, w \in Workers :
          /\ v # w
          /\ threads[v].result.tag = "Err"
          /\ threads[w].result.tag = "Err"

\* C2: when item k alone makes the action fail, then for every n >= 1 and
\* every interleaving item k is eventually handed to the action (once) and
\* consume returns Err with the error produced for item k.
C2_SingleFailureReturned ==
    \A k \in 1..MaxLen :
        (pc = "start" /\ n > 0 /\ fails = {k})
           ~> (pc = "done" /\ result = Err(k) /\ invoked[k] = 1)

\* consume has returned the error of the only failing item, which came out
\* of the shared remainder
C2_Witness ==
    /\ pc = "done"
    /\ Cardinality(fails) = 1
    /\ \E k \in fails : k > n /\ n >= 2 /\ result = Err(k) /\ invoked[k] = 1

\* C3: when no invocation of the action fails, consume returns Ok and every
\* item of the input has been passed to the action exactly once, for every
\* n >= 1, also when n exceeds the input length.
C3_SuccessConsumesAll ==
    (pc = "done" /\ Invoked \cap fails = {}) =>
        /\ result = Ok
        /\ \A i \in 1..Len(input) : invoked[i] = 1

\* a successful run with more workers asked for than there are items
C3_Witness ==
    /\ pc = "done"
    /\ result = Ok
    /\ n > Len(input)
    /\ Len(input) >= 2
    /\ \A i \in 1..Len(input) : invoked[i] = 1

\* C4: in every execution, failing or not, no item is passed to the action
\* more than once: no two workers hold the same item and no pre-assigned
\* item is left in the shared remainder.
C4_NoItemTwice ==
    /\ \A i \in 1..Len(input) : invoked[i] <= 1
    /\ \A v, w \in Workers : v # w => threads[v].item # threads[w].item
    /\ \A i \in 1..Len(queue), j \in 1..Len(pre_assigned) :
          queue[i] # pre_assigned[j]

\* a failed run in which two workers each took an item out of the remainder
C4_Witness ==
    /\ pc = "done"
    /\ result.tag = "Err"
    /\ \E v, w \in Workers :
          /\ v # w
          /\ threads[v].item > n
          /\ threads[w].item > n
          /\ invoked[threads[v].item] = 1
          /\ invoked[threads[w].item] = 1

\* a worker takes an item out of the shared remainder in this step
ClaimStep == pc # "start" /\ Len(queue') < Len(queue)

\* C5 as stated: every claim of a remainder item happens while the error
\* cell is still empty.
C5_ClaimOnlyWhileCellEmpty == [][ClaimStep => error.tag = "None"]_vars

\* C5 as amended: a worker claims a remainder item only after its own check
\* found the error cell empty; the cell may be filled between that check and
\* the claim, so after a failure has been recorded each worker claims at most
\* one more item.
C5_AtMostOneLateClaim ==
    \A w \in Workers : threads[w].late <= 1

\* a worker has claimed an item while the error cell was already filled
C5_Witness ==
    \E w \in Workers : threads[w].late = 1 /\ error.tag = "Some"

\* C6 as stated: the error cell is written at most once during a call, and
\* consume returns the first error recorded.
C6_CellWrittenOnce ==
    /\ Len(written) <= 1
    /\ (pc = "done" /\ written # <<>>) => result = Err(written[1].err)

\* C6 as amended: each worker writes the error cell at most once, every
\* write stores the error of a failed invocation, and consume returns the
\* error recorded last (Ok when nothing was recorded).
C6_LastWriteReturned ==
    /\ \A i, j \in 1..Len(written) : i # j => written[i].by # written[j].by
    /\ \A i \in 1..Len(written) : written[i].err \in Invoked \cap fails
    /\ written # <<>> => error = Some(written[Len(written)].err)
    /\ pc = "done" =>
          result = IF written = <<>> THEN Ok
                   ELSE Err(written[Len(written)].err)

\* two workers recorded different errors and consume returned the later one
C6_Witness ==
    /\ pc = "done"
    /\ Len(written) >= 2
    /\ written[1].err # written[Len(written)].err
    /\ result = Err(written[Len(written)].err)

\* C7: for a finite input and an action that always returns, consume called
\* with n >= 1 eventually returns, and when it returns every spawned worker
\* has terminated.
C7_ReturnsAfterAllWorkers ==
    /\ (pc = "start" /\ n > 0) ~> (pc = "done")
    /\ [](pc = "done" => \A w \in Workers : threads[w].pc = "exit")

\* consume has returned and its workers, more than one, have all terminated
C7_Witness ==
    /\ pc = "done"
    /\ Len(threads) >= 2
    /\ \A w \in Workers : threads[w].pc = "exit"
    /\ queue = <<>>

\* C8: at most n invocations of the action are in progress at any moment,
\* min(n, length of the input) workers are spawned, and a call with n = 0
\* is rejected before any item is taken off the input.
C8_BoundedConcurrency ==
    /\ Cardinality({w \in Workers : threads[w].pc = "in_f"}) <= n
    /\ Len(threads) <= Min(n, Len(input))
    /\ pc \in {"join", "done"} => Len(threads) = Min(n, Len(input))
    /\ (n = 0 /\ pc # "idle") =>
          /\ pc \in {"start", "panicked"}
          /\ queue = input
          /\ pre_assigned = <<>>
          /\ threads = <<>>
          /\ Invoked = {}

\* n invocations are in progress at once while items are still queued
C8_Witness ==
    /\ n >= 2
    /\ Cardinality({w \in Workers : threads[w].pc = "in_f"}) = n
    /\ queue # <<>>

\* the product of the lengths of seqs[i], seqs[i+1], ...
RECURSIVE LenProduct(_, _)
LenProduct(seqs, i) ==
    IF i > Len(seqs) THEN 1 ELSE Len(seqs[i]) * LenProduct(seqs, i + 1)

\* C9: for k >= 1 parameters whose expanded sequences have lengths L1..Lk,
\* parse_args yields L1*...*Lk tuples of length k; tuple number t (from 0)
\* holds, for parameter i, the value at position (t div (L(i+1)*...*Lk))
\* mod Li of its sequence: every combination once, in lexicographic order,
\* the last parameter varying fastest.
C9_CartesianProductOrder ==
    ppc = "done" =>
        /\ Len(expanded) = Len(args)
        /\ Len(tuples) = LenProduct(expanded, 1)
        /\ \A t \in 1..Len(tuples) :
              /\ Len(tuples[t]) = Len(args)
              /\ \A i \in 1..Len(args) :
                    tuples[t][i] =
                        expanded[i][(((t - 1) \div LenProduct(expanded, i + 1))
                                        % Len(expanded[i])) + 1]

\* `1..3` and `a,b` gave (1,a),(1,b),(2,a),(2,b)
C9_Witness ==
    /\ ppc = "done"
    /\ args = <<"1..3", "a,b">>
    /\ tuples = << <<1, "a">>, <<1, "b">>, <<2, "a">>, <<2, "b">> >>

\* C10: every integer range token FROM..TO/STEP that parses successfully
\* expands to ceil((TO-FROM)/STEP) integers, the first being FROM, each next
\* one larger by STEP, all below TO.
C10_IntRangeExpansion ==
    /\ ppc = "panicked" => perr # "step_by(0)"
    /\ \A i \in 1..Len(expanded) :
          parsed[i].kind = "IntRange" =>
              LET r == parsed[i]
                  e == expanded[i]
              IN  /\ Len(e) >= 1
                  /\ e[1] = r.start
                  /\ \A j \in 1..(Len(e) - 1) :
                        e[j + 1] - e[j] = r.step /\ e[j + 1] > e[j]
                  /\ \A j \in 1..Len(e) : e[j] < r.end
                  /\ (Len(e) - 1) * r.step < r.end - r.start
                  /\ r.end - r.start <= Len(e) * r.step

\* the parse of token i has run and did not return Ok
ParseFailed(i) ==
    /\ ppc \in {"err", "panicked"}
    /\ Len(parsed) = i - 1
    /\ Len(expanded) = i - 1

\* a <= b for two decimal digit strings
NumLeq(a, b) ==
    LET za == StripZeros(a)
        zb == StripZeros(b)
    IN  Len(za) < Len(zb) \/ (Len(za) = Len(zb) /\ DecLeq(za, zb))

\* the token is FROM..TO, with or without /STEP, for two i32 values
IsIntRangeToken(tok) ==
    LET m == INT_RANGE(tok) IN
    m.matched /\ NumLeq(m.g1, "2147483647") /\ NumLeq(m.g2, "2147483647")

\* C11: an integer range token with FROM >= TO is rejected with the
\* invalid-range error and yields no values, whatever its STEP; with
\* FROM < TO and no STEP it parses, and `3..5` expands to 3, 4.
C11_InvalidRangeRejected ==
    \A i \in 1..Len(args) :
        LET m == INT_RANGE(args[i]) IN
        /\ (IsIntRangeToken(args[i]) /\ NumLeq(m.g2, m.g1)) =>
              /\ Len(parsed) < i
              /\ ParseFailed(i) => (ppc = "err" /\ perr = "InvalidRange")
        /\ (IsIntRangeToken(args[i]) /\ ~NumLeq(m.g2, m.g1)
              /\ m.g3.tag = "None") =>
              /\ ~ParseFailed(i)
              /\ i <= Len(expanded) => expanded[i] # <<>>
        /\ (args[i] = "3..5" /\ i <= Len(expanded)) => expanded[i] = <<3, 4>>

\* `3..5` was expanded to 3, 4 and then `5..3/0` was rejected
C11_Witness ==
    /\ args = <<"3..5", "5..3/0">>
    /\ expanded = << <<3, 4>> >>
    /\ ppc = "err"
    /\ perr = "InvalidRange"

\* the pieces joined by commas again
RECURSIVE JoinComma(_)
JoinComma(xs) ==
    IF Len(xs) = 1 THEN xs[1] ELSE xs[1] \o "," \o JoinComma(Tail(xs))

\* the piece holds no comma
RECURSIVE NoComma(_)
NoComma(s) == s = "" \/ (Ch(s, 1) # "," /\ NoComma(Rest(s, 1)))

\* C12: each token is classified as exactly one of integer range, date
\* range, date-time range and literal list: no token matches two of the
\* three range grammars, a token that matches one is parsed by it, and a
\* token that matches none is never an error but the list of its
\* comma-separated pieces, each unchanged.
C12_OneGrammarPerToken ==
    \A i \in 1..Len(args) :
        LET tok == args[i]
            mi == INT_RANGE(tok).matched
            md == DATE_RANGE(tok).matched
            mt == DATE_TIME_RANGE(tok).matched
        IN  /\ ~(mi /\ md) /\ ~(mi /\ mt) /\ ~(md /\ mt)
            /\ i <= Len(parsed) =>
                  parsed[i].kind = (IF mi THEN "IntRange"
                                    ELSE IF md \/ mt THEN "DateTimeRange"
                                    ELSE "Strings")
            /\ ~(mi \/ md \/ mt) =>
                  /\ ~ParseFailed(i)
                  /\ i <= Len(parsed) =>
                        /\ JoinComma(parsed[i].xs) = tok
                        /\ \A j \in 1..Len(parsed[i].xs) :
                              NoComma(parsed[i].xs[j])
                  /\ i <= Len(expanded) => expanded[i] = parsed[i].xs

\* a date range with the unit H, which DATE_RANGE does not admit, and a
\* comma after it: the literal list of two pieces
C12_Witness ==
    /\ args = <<"2019-09-01..2019-09-03/1H,b">>
    /\ expanded = << <<"2019-09-01..2019-09-03/1H", "b">> >>
    /\ ppc = "done"

\* the token is START..END without the /Nu suffix, for two valid dates or
\* two valid date-times
IsBareCalendarRange(tok) ==
    LET d == DATE_RANGE(tok)
        t == DATE_TIME_RANGE(tok)
    IN  \/ /\ d.matched /\ d.g3.tag = "None"
           /\ ParseDate(d.g1).tag = "Some" /\ ParseDate(d.g2).tag = "Some"
        \/ /\ t.matched /\ t.g3.tag = "None"
           /\ ParseDateTime(t.g1).tag = "Some"
           /\ ParseDateTime(t.g2).tag = "Some"

\* C13: a date or date-time range token without the /Nu suffix, such as
\* `2019-09-01..2019-12-01`, is accepted: parsing it neither aborts nor
\* returns an error.
C13_BareCalendarRangeAccepted ==
    \A i \in 1..Len(args) : IsBareCalendarRange(args[i]) => ~ParseFailed(i)

\* a timestamp as its day count and second of the day, and their order
TsPair(dt) == <<DaysFromCivil(dt.date), dt.secs>>
PairLt(a, b) == a[1] < b[1] \/ (a[1] = b[1] /\ a[2] < b[2])

\* start + k * step, as day count and second of the day
Kth(start, step, k) ==
    LET secs == start.secs + k * step.secs IN
    <<DaysFromCivil(start.date) + k * step.days + (secs \div 86400),
      secs % 86400>>

\* token i was parsed as a fixed-step calendar range with a step above zero
IsFixedStep(i) ==
    /\ i <= Len(parsed)
    /\ parsed[i].kind = "DateTimeRange"
    /\ parsed[i].range.kind = "FixedStep"
    /\ (parsed[i].range.step.days > 0 \/ parsed[i].range.step.secs > 0)

\* the expansion of token i is under way, has ended, has aborted
Expanding(i) == ppc = "expand" /\ Len(parsed) = i
Expanded(i) == i <= Len(expanded)
ExpandAborted(i) ==
    ppc = "panicked" /\ Len(parsed) = i /\ Len(expanded) = i - 1

\* what C14 says of the timestamps next() has returned
FixedStepYields(i) ==
    LET r == parsed[i].range
        ys == yielded[i]
    IN  /\ \A k \in 1..Len(ys) :
              /\ TsPair(ys[k]) = Kth(r.start, r.step, k - 1)
              /\ PairLt(TsPair(ys[k]), TsPair(r.end))
        /\ Expanding(i) =>
              TsPair(iter.val.start) = Kth(r.start, r.step, Len(ys))
        /\ Expanded(i) =>
              ~PairLt(Kth(r.start, r.step, Len(ys)), TsPair(r.end))

\* C14: a fixed-step calendar iterator with a step s > 0 yields exactly the
\* timestamps start + k*s (k = 0, 1, 2, ...) that lie strictly before end,
\* in increasing order, and nothing when start >= end: every next() returns
\* the cursor and then advances it by exactly s.
C14_FixedStepSequence ==
    \A i \in 1..Len(parsed) :
        IsFixedStep(i) => (FixedStepYields(i) /\ ~ExpandAborted(i))

\* token i was parsed as a monthly-step calendar range
IsMonthlyStep(i) ==
    /\ i <= Len(parsed)
    /\ parsed[i].kind = "DateTimeRange"
    /\ parsed[i].range.kind = "MonthlyStep"

\* the year and month that lie k months after those of date, as
\* <<year, month>>, and the date that many calendar months later: the same
\* day of the month, or the last day of a shorter month
YearMonthAfter(date, k) ==
    LET idx == date.y * 12 + (date.m - 1) + k IN
    <<idx \div 12, (idx % 12) + 1>>

MonthsAfter(date, k) ==
    LET ym == YearMonthAfter(date, k)
        last == DaysInMonth(ym[1], ym[2])
    IN  Date(ym[1], ym[2], IF date.d < last THEN date.d ELSE last)

\* what C15 says of the timestamps next() has returned
MonthlyYields(i) ==
    LET r == parsed[i].range
        k == Capped(r.months, 0)
        ys == yielded[i]
        first == DateTime(r.current_date.val, r.time_of_day)
    IN  /\ \A j \in 1..Len(ys) :
              /\ ys[j].secs = r.time_of_day
              /\ PairLt(TsPair(ys[j]), TsPair(r.end))
              /\ ys[j].date = (IF j = 1 THEN r.current_date.val
                               ELSE MonthsAfter(ys[j - 1].date, k))
        /\ Expanded(i) =>
              ~PairLt(TsPair(IF ys = <<>> THEN first
                             ELSE DateTime(MonthsAfter(ys[Len(ys)].date, k),
                                           r.time_of_day)),
                      TsPair(r.end))

\* C15: a monthly-step iterator yields its cursor exactly when that
\* timestamp lies strictly before end; each yielded timestamp is `months`
\* calendar months after the previous one, at the same time of day, the year
\* carried. For 2019-09-02T10:32:20..2020-02-03T09:00:10 and one month these
\* are the six timestamps on the 2nd of September 2019 to February 2020.
C15_MonthlySequence ==
    \A i \in 1..Len(parsed) :
        IsMonthlyStep(i) =>
            /\ MonthlyYields(i)
            /\ ~ExpandAborted(i)
            /\ (args[i] = "2019-09-02T10:32:20..2020-02-03T09:00:10/1m"
                  /\ Expanded(i)) =>
                  expanded[i] = <<"2019-09-02T10:32:20", "2019-10-02T10:32:20",
                                  "2019-11-02T10:32:20", "2019-12-02T10:32:20",
                                  "2020-01-02T10:32:20", "2020-02-02T10:32:20">>

\* token i is a monthly range whose start lies before its end and whose
\* first advance leaves the years chrono represents
LeavesYearRange(i) ==
    /\ IsMonthlyStep(i)
    /\ LET r == parsed[i].range IN
          /\ PairLt(TsPair(DateTime(r.current_date.val, r.time_of_day)),
                    TsPair(r.end))
          /\ YearMonthAfter(r.current_date.val, Capped(r.months, 0))[1]
                 > MAX_YEAR

\* C16: when advancing the cursor by `months` months would leave the
\* representable years, the cursor becomes empty and the iteration ends:
\* next() returns the current timestamp and from then on nothing; the
\* advance raises no error and does not abort.
C16_OverflowEndsIteration ==
    \A i \in 1..Len(parsed) :
        LeavesYearRange(i) =>
            /\ ~ExpandAborted(i)
            /\ (Expanding(i) /\ yielded[i] # <<>>) =>
                  iter.val.current_date.tag = "None"
            /\ Expanded(i) =>
                  yielded[i] = <<DateTime(parsed[i].range.current_date.val,
                                          parsed[i].range.time_of_day)>>

\* the cursor of a calendar range, as day count and second of the day; an
\* empty cursor lies after every timestamp
Cursor(range) ==
    IF range.kind = "FixedStep" THEN TsPair(range.start)
    ELSE IF range.current_date.tag = "None" THEN <<MaxDay + 1, 0>>
    ELSE <<DaysFromCivil(range.current_date.val), range.time_of_day>>

\* C17: every calendar range the parser accepts, for every step count
\* N >= 0, gives a finite sequence: each next() that yields leaves the
\* cursor strictly later than it was, so that after finitely many calls the
\* cursor has reached end, next() returns nothing and the expansion ends.
C17_FiniteExpansion ==
    [][(ppc = "expand" /\ iter.tag = "Some" /\ vec' # vec /\ vec' # <<>>)
           => PairLt(Cursor(iter.val), Cursor(iter'.val))]_vars

\* the token fails to parse
IsFailing(tok) == parse_query_values(tok).kind = "Err"

\* C18: if a parameter token fails to parse, whatever its position,
\* parse_args returns that error and no tuple, and no execution of the
\* prepared statement is dispatched.
C18_ParseErrorStopsRun ==
    /\ (\E i \in 1..Len(args) : IsFailing(args[i])) =>
          /\ tuples = <<>>
          /\ spawned = <<>>
          /\ ppc # "done"
    /\ ppc = "err" =>
          /\ IsFailing(args[Len(parsed) + 1])
          /\ perr = parse_query_values(args[Len(parsed) + 1]).msg
          /\ \A j \in 1..Len(parsed) : ~IsFailing(args[j])
    /\ spawned # <<>> => \A i \in 1..Len(args) : ~IsFailing(args[i])

\* the second token held no valid date: its error was returned after the
\* first token had been expanded, and nothing was dispatched
C18_Witness ==
    /\ args = <<"a,b", "2019-02-30..2019-03-05/1d">>
    /\ expanded = << <<"a", "b">> >>
    /\ ppc = "err"
    /\ perr = "ParseError"
    /\ tuples = <<>>
    /\ spawned = <<>>

\* decoding row k of the response fails
RowFails(k) ==
    row_to_json(resp.col_specs, resp.rows_content[k], <<>>).tag = "Err"

\* the rows a stream holds, in the order they were printed
RowsOf(stream) == [j \in 1..Len(stream) |-> stream[j].row]

Increasing(s) == \A j \in 1..(Len(s) - 1) : s[j] < s[j + 1]

\* C19: when the decoding of a row fails, the remaining rows of the
\* response are still decoded and printed in order, and the execution of
\* the tuple reports success.
C19_RowErrorsDoNotStopRows ==
    /\ \A k \in 1..rpos :
          /\ RowFails(k) <=> (\E j \in 1..Len(stderr) : stderr[j].row = k)
          /\ ~RowFails(k) <=> (\E j \in 1..Len(stdout) : stdout[j].row = k)
    /\ Len(stdout) + Len(stderr) = rpos
    /\ Increasing(RowsOf(stdout))
    /\ Increasing(RowsOf(stderr))
    /\ rpc = "err" => resp.kind \in {"exec_err", "body_err"}
    /\ rpc = "panicked" =>
          row_to_json(resp.col_specs, resp.rows_content[rpos + 1], <<>>).tag
              = "Panic"
    /\ (rpc = "ok" /\ resp.kind = "rows") => rpos = Len(resp.rows_content)

\* the second of three rows failed to decode: rows 1 and 3 were printed,
\* the error of row 2 was reported, and prepared_query returned Ok
C19_Witness ==
    /\ rpc = "ok"
    /\ Len(resp.rows_content) = 3
    /\ RowFails(2)
    /\ RowsOf(stdout) = <<1, 3>>
    /\ RowsOf(stderr) = <<2>>

\* the variants that may be map keys
KeyVariants ==
    {"String", "Int", "Boolean", "Double", "Date", "Time", "Timestamp",
     "Inet", "Uuid", "Blob"}

\* the variant a key of the given type and payload decodes to, and whether
\* the decoding returns one at all
KeyVariant(key_type, data) ==
    IF data.tag = "None" THEN "Null"
    ELSE IF key_type.id = "List" THEN "Seq"
    ELSE IF key_type.id = "Map" THEN "Map"
    ELSE VariantOf(key_type.id)

KeyDecodes(key_type, data) ==
    \/ data.tag = "None"
    \/ key_type.id \in {"Null", "Blob"}
    \/ data.val.b \in {"ok", "list", "map"}
    \/ (data.val.b = "range" /\ key_type.id \notin {"Date", "Time", "Timestamp"})

\* entry j is the first one that does not decode, and does not because its
\* key decodes to a variant that is no map key
BadKeyAt(key_type, es, j) ==
    /\ \A i \in 1..(j - 1) :
          /\ KeyDecodes(key_type, es[i][1])
          /\ KeyVariant(key_type, es[i][1]) \in KeyVariants
          /\ (es[i][2].tag = "None" \/ es[i][2].val.b = "ok")
    /\ KeyDecodes(key_type, es[j][1])
    /\ KeyVariant(key_type, es[j][1]) \notin KeyVariants

\* the response is one row of one map column, and write_row has seen it
MapRowWritten ==
    /\ resp.kind = "rows"
    /\ Len(resp.col_specs) = 1
    /\ resp.col_specs[1].col_type.id = "Map"
    /\ (rpos = 1 \/ rpc = "panicked")

\* C20: a map column decodes only if every key decodes to one of string,
\* int, bool, double, date, time, timestamp, inet, uuid, blob; a key that
\* decodes to a Sequence, a Keyed, Null (a key without payload included) or
\* any other variant makes the whole decode fail with the map-key error, and
\* no part of the map is returned.
C20_MapKeyVariants ==
    MapRowWritten =>
        LET key_type == resp.col_specs[1].col_type.value.key
            es == resp.rows_content[1][1].val.entries
            bad == \E j \in 1..Len(es) : BadKeyAt(key_type, es, j)
        IN  /\ stdout # <<>> =>
                  \A j \in 1..Len(es) :
                      KeyVariant(key_type, es[j][1]) \in KeyVariants
            /\ bad => /\ stdout = <<>>
                      /\ rpc # "panicked"
                      /\ stderr = <<[row |-> 1,
                                     err |-> "Unexpected map key type"]>>
            /\ (stderr # <<>> /\ stderr[1].err = "Unexpected map key type")
                  => bad

\* a text key with payload and then a key without: the second key decodes
\* to Null and the map is rejected
C20_Witness ==
    /\ MapRowWritten
    /\ resp.col_specs[1].col_type.value.key.id = "Varchar"
    /\ resp.rows_content[1][1].val.entries
           = << <<Plain("ok", 1), Plain("ok", 1)>>, <<NoneV, Plain("ok", 1)>> >>
    /\ stdout = <<>>
    /\ stderr = <<[row |-> 1, err |-> "Unexpected map key type"]>>

\* C21: every IntRange the parser produces from a token has
\* start < end_exclusive and step >= 1; no token of the integer grammar,
\* STEP written as 0 included, gives an IntRange with step 0.
C21_IntRangeInvariant ==
    \A i \in 1..Len(parsed) :
        parsed[i].kind = "IntRange" =>
            /\ parsed[i].start < parsed[i].end
            /\ parsed[i].step >= 1

\* the month that lies k months after that of date is one chrono represents
TargetInRange(date, k) ==
    LET ym == YearMonthAfter(date, k) IN MIN_YEAR <= ym[1] /\ ym[1] <= MAX_YEAR

\* date is a date of the calendar, in the month k months after that of d,
\* on the day of d or on the last day of a shorter month
IsAdvanceOf(date, d, k) ==
    LET ym == YearMonthAfter(d, k) IN
    /\ date.y = ym[1] /\ date.m = ym[2]
    /\ 1 <= date.d /\ date.d <= DaysInMonth(date.y, date.m)
    /\ date.d = (IF d.d < DaysInMonth(ym[1], ym[2]) THEN d.d
                 ELSE DaysInMonth(ym[1], ym[2]))

\* what C22 says of the advances the iterator of token i has made
AdvancesClamp(i) ==
    LET k == Capped(parsed[i].range.months, 0)
        ys == yielded[i]
    IN  /\ \A j \in 2..Len(ys) : IsAdvanceOf(ys[j].date, ys[j - 1].date, k)
        /\ (Expanding(i) /\ ys # <<>>
               /\ TargetInRange(ys[Len(ys)].date, k)) =>
              /\ iter.val.current_date.tag = "Some"
              /\ IsAdvanceOf(iter.val.current_date.val, ys[Len(ys)].date, k)

\* C22: each advance of the monthly iterator from a date D by `months`
\* gives a valid date in the month `months` months after that of D, the
\* year carried, on day min(day of D, last day of that month), leap years
\* included; an advance to a month chrono represents does not abort.
C22_MonthAdvanceClamps ==
    \A i \in 1..Len(parsed) :
        IsMonthlyStep(i) =>
            /\ AdvancesClamp(i)
            /\ ExpandAborted(i) =>
                  ~TargetInRange(iter.val.current_date.val,
                                 Capped(parsed[i].range.months, 0))

\* C23: over one monthly iteration the day of the month of the yielded
\* timestamps never increases: once an advance has clamped it to the last
\* day of a shorter month, the later timestamps keep that day and do not
\* return to the day of the start.
C23_DayNeverIncreases ==
    \A i \in 1..Len(parsed) :
        IsMonthlyStep(i) =>
            /\ \A j \in 2..Len(yielded[i]) :
                  yielded[i][j].date.d <= yielded[i][j - 1].date.d
            /\ (Expanding(i) /\ yielded[i] # <<>>
                   /\ iter.val.current_date.tag = "Some") =>
                  iter.val.current_date.val.d
                      <= yielded[i][Len(yielded[i])].date.d

\* from 31 January 2019 by one month: 31 January, 28 February, 28 March
C23_Witness ==
    /\ args = <<"2019-01-31..2019-06-15/1m">>
    /\ Len(expanded) = 1
    /\ expanded[1] = <<"2019-01-31", "2019-02-28", "2019-03-28",
                       "2019-04-28", "2019-05-28">>

\* the first k items of the input
Prefix_k(k) == {input[i] : i \in 1..k}

\* C24: when consume returns, after a success or a failure, the items that
\* were passed to the action are a prefix of the input: the first
\* min(n, length) items, which are pre-assigned, are among them, the
\* remainder is claimed in input order, and no item was invoked while an
\* earlier one is left out.
C24_InvokedIsPrefix ==
    /\ pc \notin {"idle", "start", "panicked"} =>
          \E k \in Min(n, Len(input))..Len(input) :
              queue = SubSeq(input, k + 1, Len(input))
    /\ pc = "done" =>
          \E k \in Min(n, Len(input))..Len(input) :
              /\ Invoked = Prefix_k(k)
              /\ queue = SubSeq(input, k + 1, Len(input))

\* consume with two workers has returned an error after the third item was
\* claimed from the remainder and passed to the action; the fourth was not
C24_Witness ==
    /\ pc = "done"
    /\ result.tag = "Err"
    /\ n = 2
    /\ Len(input) = 4
    /\ Invoked = Prefix_k(3)
    /\ queue = <<input[4]>>

\* the workers that began an invocation of the action after the error cell
\* was first filled
LateStarters == {w \in Workers : threads[w].after >= 1}

\* C25: once the error cell is filled, each worker begins at most one more
\* invocation of the action and a worker that recorded a failure begins
\* none, so at most n - 1 invocations begin after the first failure was
\* recorded.
C25_LateInvocationsBounded ==
    /\ \A w \in Workers : threads[w].after <= 1
    /\ \A i \in 1..Len(written) : threads[written[i].by].after = 0
    /\ written = <<>> => LateStarters = {}
    /\ written # <<>> => Cardinality(LateStarters) <= n - 1

\* with three workers, the two that did not record the failure have each
\* begun one invocation after it was recorded
C25_Witness ==
    /\ n = 3
    /\ Len(written) = 1
    /\ Cardinality(LateStarters) = 2
    /\ \E w \in LateStarters : threads[w].late = 1

\* tok is a date or date-time range of two dates of the calendar, the
\* first not before the second, with a step count, if it has one, that is
\* a u32
IsEmptyCalendarRange(tok) ==
    LET d == DATE_RANGE(tok)
        t == DATE_TIME_RANGE(tok)
        m == IF d.matched THEN d ELSE t
        s == IF d.matched THEN ParseDate(d.g1) ELSE ParseDateTime(t.g1)
        e == IF d.matched THEN ParseDate(d.g2) ELSE ParseDateTime(t.g2)
    IN  /\ d.matched \/ t.matched
        /\ s.tag = "Some" /\ e.tag = "Some"
        /\ IF d.matched
           THEN ~DateTimeLt(DateTime(s.val, 0), DateTime(e.val, 0))
           ELSE ~DateTimeLt(s.val, e.val)
        /\ m.g3.tag = "Some" => parse_u32(m.g3.val).tag = "Some"

\* C26: a date or date-time range token whose start is not before its end
\* parses without error and expands to no value; when a parameter expands
\* to no value the product is empty: parse_args returns zero tuples and no
\* query is executed.
C26_EmptyRangeGivesNoTuples ==
    /\ \A i \in 1..Len(args) :
          IsEmptyCalendarRange(args[i]) =>
              /\ ~ParseFailed(i)
              /\ Expanded(i) => expanded[i] = <<>>
    /\ (ppc = "done" /\ \E i \in 1..Len(expanded) : expanded[i] = <<>>) =>
          /\ tuples = <<>>
          /\ spawned = <<>>

====
